---------------------------- MODULE Spec2Model ----------------------------
(***************************************************************************)
(* Model of the fleet deployment agent src/deploy.py (class Deploy).       *)
(*                                                                         *)
(* One run of the agent is a sequential program; pc is its position.  The  *)
(* external collaborators (git, the container engine, curl, the            *)
(* filesystem) answer nondeterministically: every command may succeed or   *)
(* fail, and cmds records every external effect in the order it happened.  *)
(* Paths are strings and the classifier's regular expression and the       *)
(* suffix test of the secret sync are evaluated character by character.    *)
(*                                                                         *)
(* The same variables carry the sibling tool src/encrypt_secrets.py, which *)
(* works on the same directories: one invocation of the script is one      *)
(* step, and checksums is the mapping it keeps in .env_checksums.json.     *)
(***************************************************************************)
EXTENDS Integers, Sequences, FiniteSets, TLC

VARIABLES
    pc,              \* position of the run
    exit_code,       \* -1 while running, then the process exit status
    fatal,           \* where the exception that ended the process was raised
    sops,            \* state of the cached decryption binary on disk
    head,            \* revision of the local checkout
    origin,          \* revision of origin/main
    prev_commit,     \* self.prev_commit    (0 = not assigned yet)
    current_commit,  \* self.current_commit (0 = not assigned yet)
    compose,         \* compose[d]: d/compose.yaml exists
    enc,             \* enc[d]: d/.env.enc exists
    dec,             \* dec[d]: d/.env exists
    containers,      \* containers[d]: project state in the container engine
    app_dirs,        \* self.app_dirs
    idx,             \* position of the for loop of run() in app_dirs
    changed,         \* local variable changed of run()
    rebuild,         \* local variable rebuild of run()
    cmds,            \* downloads, diffs, engine and decryption commands and file
                     \* removals, in order
    log,             \* lines printed that report an outcome, in order
    checksums,       \* checksums[d]: digest recorded for d/.env in
                     \* .env_checksums.json (0 = no entry)
    env_sum          \* env_sum[d]: SHA-256 digest of the content of d/.env

vars == <<pc, exit_code, fatal, sops, head, origin, prev_commit, current_commit,
          compose, enc, dec, containers, app_dirs, idx, changed,
          rebuild, cmds, log, checksums, env_sum>>

-----------------------------------------------------------------------------
(* Bounds *)

\* longest output of git diff (number of changed paths) in a fleet run
MaxChanged == 2
\* longest changed-file list handed to the classifier on its own
MaxFiles == 2

\* most invocations of the encryption tool in a row
MaxInvocations == 2

\* immediate subdirectories of the fleet root
Dirs == {"appA", "appB"}
\* revisions of the repository
Revs == {1, 2}
\* paths git diff may report for an application in a fleet run
RunPool == {"app/README.md", "app/.env.enc", "app/Dockerfile"}
\* paths handed to the secret sync on its own
SyncPool ==
    { "app/README.md", "app/.env.enc", "app/sub/.env.enc", "app/.env.enc.bak",
      "app/.ENV.ENC" }
\* paths handed to the classifier on its own
PathPool ==
    { "Dockerfile", "app/Dockerfile", "app/sub/DOCKERFILE", "app/dockerfile",
      "app/Dockerfile.dev", "app/dockerfiles/x.md", "app/myDockerfile",
      "requirements", "app/Requirements.TXT", "app/requirements.txt",
      "app/requirements.txt.bak", "app/requirements-dev.txt",
      "app/compose.yml", "app/sub/Compose.YAML", "app/compose.yaml.orig",
      "app/docker-compose.yml", "app/compose.yl",
      "app/README.md", "app/.env.enc", "app/src/main.py" }

FileLists(pool, n) == UNION { [1..k -> pool] : k \in 0..n }

-----------------------------------------------------------------------------
(* Strings *)

UpperAlpha == "ABCDEFGHIJKLMNOPQRSTUVWXYZ"
LowerAlpha == "abcdefghijklmnopqrstuvwxyz"

CharAt(s, i) == SubSeq(s, i, i)

UpperChars == {CharAt(UpperAlpha, i) : i \in 1..Len(UpperAlpha)}

LowerOf ==
    [c \in UpperChars |->
        CharAt(LowerAlpha, CHOOSE i \in 1..Len(UpperAlpha) : CharAt(UpperAlpha, i) = c)]

LowerChar(c) == IF c \in UpperChars THEN LowerOf[c] ELSE c

RECURSIVE Lower(_)
Lower(s) ==
    IF Len(s) = 0 THEN ""
    ELSE LowerChar(CharAt(s, 1)) \o Lower(SubSeq(s, 2, Len(s)))

\* the literal lit (given in lower case) matches f at position i, ignoring case
MatchAt(f, i, lit) ==
    /\ i + Len(lit) - 1 <= Len(f)
    /\ Lower(SubSeq(f, i, i + Len(lit) - 1)) = lit

\* $ at position j of f (f holds no newline: it is a line of splitlines())
AtEnd(f, j) == j = Len(f) + 1

\* str.endswith
EndsWith(f, suffix) ==
    /\ Len(f) >= Len(suffix)
    /\ SubSeq(f, Len(f) - Len(suffix) + 1, Len(f)) = suffix

-----------------------------------------------------------------------------
(* Deploy.needs_build *)

\* (^|/)
SegmentStart(f, i) == i = 1 \/ CharAt(f, i - 1) = "/"

\* Dockerfile                      (no $ in this alternative)
AltDockerfile(f, i) == MatchAt(f, i, "dockerfile")

\* requirements(\.txt)?$
AltRequirements(f, i) ==
    /\ MatchAt(f, i, "requirements")
    /\ \/ AtEnd(f, i + Len("requirements"))
       \/ /\ MatchAt(f, i + Len("requirements"), ".txt")
          /\ AtEnd(f, i + Len("requirements.txt"))

\* compose\.ya?ml$
AltComposeYaml(f, i) ==
    \/ MatchAt(f, i, "compose.yml") /\ AtEnd(f, i + Len("compose.yml"))
    \/ MatchAt(f, i, "compose.yaml") /\ AtEnd(f, i + Len("compose.yaml"))

\* compose\.yml$
AltComposeYml(f, i) ==
    MatchAt(f, i, "compose.yml") /\ AtEnd(f, i + Len("compose.yml"))

\* pattern.search(f)
PatternSearch(f) ==
    \E i \in 1..(Len(f) + 1) :
        /\ SegmentStart(f, i)
        /\ \/ AltDockerfile(f, i)
           \/ AltRequirements(f, i)
           \/ AltComposeYaml(f, i)
           \/ AltComposeYml(f, i)

\* a slip of the loop: only the first changed file is looked at
needs_build_first_only(changed_files) ==
    Len(changed_files) > 0 /\ PatternSearch(changed_files[1])

needs_build(changed_files) ==
    \E k \in 1..Len(changed_files) : PatternSearch(changed_files[k])


-----------------------------------------------------------------------------
(* External commands *)

GitDiff      == "diff --name-only"
CurlSops     == "curl -LO sops"
SopsDecrypt  == "--input-type dotenv --output-type dotenv --output .env --decrypt .env.enc"
ComposeUpBuild == "compose up -d --build --remove-orphans"
ComposeUp      == "compose up -d --remove-orphans"
ComposeRestart == "compose restart"
ComposePs      == "compose ps -q"
SystemPrune    == "system prune -af"
RemoveEnv      == "remove .env"

\* one external effect: the tool, its arguments, the application directory it
\* is scoped to ("" for none), whether it succeeded and whether it printed
\* anything ("" for nothing)
Cmd(tool, op, app, ok, out) ==
    [tool |-> tool, op |-> op, app |-> app, ok |-> ok, out |-> out]

\* git diff --name-only of the two revisions the run holds at that moment
GitDiffCmd(app, ok, out) ==
    Cmd("git", GitDiff, app, ok, out) @@ [revs |-> <<prev_commit, current_commit>>]

\* lines of deploy.py that report an outcome; the lines that announce a step
\* (">> Processing app", "   Restarting...", ...) are not recorded
DownloadFailed  == "Error: Failed to download"
NoChanges       == "[No changes] Skipping"
OperationFailed == "ERROR: Docker operation failed for"
PruneFailed     == "WARNING: docker system prune failed"
Complete        == "--- Deployment Complete ---"

\* one printed line: the stream, the fixed part of its text and the
\* application directory its text names ("" for none)
Line(stream, msg, app) == [stream |-> stream, msg |-> msg, app |-> app]

\* subprocess raised, or the interpreter raised, or exit(1) was called, and
\* nothing catches it: the process ends with status 1
Uncaught(at) ==
    /\ pc' = "crashed"
    /\ exit_code' = 1
    /\ fatal' = at

-----------------------------------------------------------------------------
(* Container engine, as the agent drives it *)

\* docker compose ps -q prints the ids of the project's running containers
PsOutput(state) == IF state = "running" THEN "ids" ELSE ""

\* project states a command may leave behind
EngineEffect(op, state, ok) ==
    IF op \in {ComposeUp, ComposeUpBuild}
    THEN IF ok THEN {"running"} ELSE {state, "stopped"}
    ELSE IF op = ComposeRestart
    THEN IF state = "absent" THEN {"absent"}
         ELSE IF ok THEN {"running"} ELSE {state, "stopped"}
    ELSE {state}

-----------------------------------------------------------------------------
(* Deploy.__init__ / Deploy.download_sops *)

Boot ==
    /\ pc = "boot"
    /\ IF sops # "absent"
       THEN /\ pc' = "rev_prev"
            /\ UNCHANGED <<exit_code, fatal, sops, cmds, log>>
       ELSE \E ok \in BOOLEAN :
            /\ cmds' = Append(cmds, Cmd("curl", CurlSops, "", ok, ""))
            /\ sops' = IF ok THEN "downloaded" ELSE "absent"
            /\ log' = IF ok THEN Append(log, Line("stdout", DownloadFailed, ""))
                       ELSE log
            \* run_cmd returns None without capture: result != 0 holds after a
            \* successful download, and a failed one raises
            /\ Uncaught("bootstrap")
    /\ UNCHANGED <<head, origin, prev_commit, current_commit, compose, enc, dec,
                   containers, app_dirs, idx, changed, rebuild,
                   checksums, env_sum>>

-----------------------------------------------------------------------------
(* Deploy.updating_repo *)
(* Each run_cmd of the update is one step; a failed command raises         *)
(* CalledProcessError, which neither updating_repo nor run catches.        *)

RevPrev ==
    /\ pc = "rev_prev"
    /\ \E ok \in BOOLEAN :
        IF ok
        THEN /\ prev_commit' = head
             /\ pc' = "fetch"
             /\ UNCHANGED <<exit_code, fatal>>
        ELSE /\ Uncaught("rev_prev")
             /\ UNCHANGED prev_commit
    /\ UNCHANGED <<sops, head, origin, current_commit, compose, enc, dec,
                   containers, app_dirs, idx, changed, rebuild, cmds,
                   log, checksums, env_sum>>

\* the failure of the fetch is caught and noted, and the update goes on
Fetch_caught ==
    /\ pc = "fetch"
    /\ \E ok \in BOOLEAN :
        /\ pc' = "reset"
        /\ fatal' = IF ok THEN fatal ELSE "fetch"
    /\ UNCHANGED <<exit_code, sops, head, origin, prev_commit, current_commit,
                   compose, enc, dec, containers, app_dirs, idx, changed,
                   rebuild, cmds, log, checksums, env_sum>>

Fetch ==
    /\ pc = "fetch"
    /\ \E ok \in BOOLEAN :
        IF ok
        THEN /\ pc' = "reset"
             /\ UNCHANGED <<exit_code, fatal>>
        ELSE Uncaught("fetch")
    /\ UNCHANGED <<sops, head, origin, prev_commit, current_commit, compose,
                   enc, dec, containers, app_dirs, idx, changed, rebuild, cmds,
                   log, checksums, env_sum>>

\* a successful hard reset moves the checkout to origin/main and rewrites the
\* tracked files (compose.yaml, .env.enc); .env is not tracked
Reset ==
    /\ pc = "reset"
    /\ \E ok \in BOOLEAN :
        IF ok
        THEN /\ head' = origin
             /\ compose' \in [Dirs -> BOOLEAN]
             /\ enc' \in [Dirs -> BOOLEAN]
             /\ pc' = "rev_cur"
             /\ UNCHANGED <<exit_code, fatal>>
        ELSE /\ Uncaught("reset")
             /\ UNCHANGED <<head, compose, enc>>
    /\ UNCHANGED <<sops, origin, prev_commit, current_commit, dec, containers,
                   app_dirs, idx, changed, rebuild, cmds,
                   log, checksums, env_sum>>

\* the previous revision is read again after the reset
RevCur_recaptures_previous ==
    /\ pc = "rev_cur"
    /\ \E ok \in BOOLEAN :
        IF ok
        THEN /\ current_commit' = head
             /\ prev_commit' = head
             /\ \E gitmodules \in BOOLEAN :
                    pc' = IF gitmodules THEN "submodule" ELSE "discover"
             /\ UNCHANGED <<exit_code, fatal>>
        ELSE /\ Uncaught("rev_cur")
             /\ UNCHANGED <<current_commit, prev_commit>>
    /\ UNCHANGED <<sops, head, origin, compose, enc, dec,
                   containers, app_dirs, idx, changed, rebuild, cmds,
                   log, checksums, env_sum>>

RevCur ==
    /\ pc = "rev_cur"
    /\ \E ok \in BOOLEAN :
        IF ok
        THEN /\ current_commit' = head
             \* (Path(self.fleet_dir) / ".gitmodules").exists()
             /\ \E gitmodules \in BOOLEAN :
                    pc' = IF gitmodules THEN "submodule" ELSE "discover"
             /\ UNCHANGED <<exit_code, fatal>>
        ELSE /\ Uncaught("rev_cur")
             /\ UNCHANGED current_commit
    /\ UNCHANGED <<sops, head, origin, prev_commit, compose, enc, dec,
                   containers, app_dirs, idx, changed, rebuild, cmds,
                   log, checksums, env_sum>>

Submodule ==
    /\ pc = "submodule"
    /\ \E ok \in BOOLEAN :
        IF ok
        THEN /\ pc' = "discover"
             /\ UNCHANGED <<exit_code, fatal>>
        ELSE Uncaught("submodule")
    /\ UNCHANGED <<sops, head, origin, prev_commit, current_commit, compose,
                   enc, dec, containers, app_dirs, idx, changed, rebuild, cmds,
                   log, checksums, env_sum>>

-----------------------------------------------------------------------------
(* Deploy.find_app_dirs *)

\* the orders iterdir() may list a set of directories in
Orders(S) ==
    { s \in [1..Cardinality(S) -> S] :
        \A i, j \in 1..Cardinality(S) : i # j => s[i] # s[j] }

\* every subdirectory is taken for an application
find_app_dirs_all == Orders(Dirs)

find_app_dirs == Orders({d \in Dirs : compose[d]})

Discover ==
    /\ pc = "discover"
    /\ \E readable \in BOOLEAN :
        IF readable
        THEN /\ app_dirs' \in find_app_dirs
             /\ pc' = "loop"
             /\ UNCHANGED <<exit_code, fatal>>
        ELSE /\ Uncaught("discover")
             /\ UNCHANGED app_dirs
    /\ UNCHANGED <<sops, head, origin, prev_commit, current_commit, compose,
                   enc, dec, containers, idx, changed, rebuild, cmds,
                   log, checksums, env_sum>>

-----------------------------------------------------------------------------
(* Deploy.git_changed_files_for_dir, with the head of the for loop of run() *)

\* what git diff --name-only prev current -- app_dir may print: nothing when
\* both revisions are the same commit
DiffOutputs ==
    IF prev_commit = current_commit THEN {<<>>}
    ELSE FileLists(RunPool, MaxChanged)

\* the loop goes on to classify an application whose diff printed nothing
Diff_no_skip ==
    /\ pc = "loop"
    /\ idx < Len(app_dirs)
    /\ idx' = idx + 1
    /\ \E ok \in BOOLEAN : \E out \in DiffOutputs :
        /\ cmds' = Append(cmds, GitDiffCmd(app_dirs[idx + 1], ok,
                                    IF ok /\ out # <<>> THEN "paths" ELSE ""))
        /\ changed' = IF ok THEN out ELSE <<>>
        /\ pc' = "classify"
    /\ UNCHANGED <<exit_code, fatal, sops, head, origin, prev_commit,
                   current_commit, compose, enc, dec, containers, app_dirs,
                   rebuild, log, checksums, env_sum>>

Diff ==
    /\ pc = "loop"
    /\ idx < Len(app_dirs)
    /\ idx' = idx + 1
    /\ \E ok \in BOOLEAN : \E out \in DiffOutputs :
        /\ cmds' = Append(cmds, GitDiffCmd(app_dirs[idx + 1], ok,
                                    IF ok /\ out # <<>> THEN "paths" ELSE ""))
        \* except subprocess.CalledProcessError: return []
        /\ changed' = IF ok THEN out ELSE <<>>
        \* if not changed: continue
        /\ pc' = IF changed' = <<>> THEN "loop" ELSE "classify"
        /\ log' = IF changed' = <<>>
                   THEN Append(log, Line("stdout", NoChanges, app_dirs[idx + 1]))
                   ELSE log
    /\ UNCHANGED <<exit_code, fatal, sops, head, origin, prev_commit,
                   current_commit, compose, enc, dec, containers, app_dirs, rebuild,
                   checksums, env_sum>>

Classify ==
    /\ pc = "classify"
    /\ rebuild' = needs_build(changed)
    /\ pc' = "sync"
    /\ UNCHANGED <<exit_code, fatal, sops, head, origin, prev_commit,
                   current_commit, compose, enc, dec, containers, app_dirs, idx, changed, cmds,
                   log, checksums, env_sum>>

-----------------------------------------------------------------------------
(* Deploy.decrypt_secrets *)

\* the stale .env is removed only when the diff lists .env.enc
decrypt_secrets_listed_only(enc_isfile, env_exists, changed_files) ==
    IF \E k \in 1..Len(changed_files) : EndsWith(changed_files[k], ".env.enc")
    THEN IF ~enc_isfile
         THEN IF env_exists THEN "remove" ELSE "return"
         ELSE "raise"
    ELSE "return"

\* the changed-file list is walked before the encrypted file is looked for
decrypt_secrets_listing_first(enc_isfile, env_exists, changed_files) ==
    IF \E k \in 1..Len(changed_files) : EndsWith(changed_files[k], ".env.enc")
    THEN "raise"
    ELSE IF ~enc_isfile /\ env_exists THEN "remove" ELSE "return"

\* the encrypted file is decrypted whenever it exists, listed or not
decrypt_secrets_ignores_listing(enc_isfile, env_exists, changed_files) ==
    IF ~enc_isfile
    THEN IF env_exists THEN "remove" ELSE "return"
    ELSE "decrypt"

\* "remove": .env is deleted; "return": nothing is done; "raise": building the
\* command reads self.sops_filename, an attribute no code assigns
\* (__init__ assigns self.sops_path), so AttributeError is raised before any
\* command is started
decrypt_secrets(enc_isfile, env_exists, changed_files) ==
    IF ~enc_isfile
    THEN IF env_exists THEN "remove" ELSE "return"
    ELSE IF \E k \in 1..Len(changed_files) : EndsWith(changed_files[k], ".env.enc")
         THEN "raise"
         ELSE "return"

\* one call of decrypt_secrets(d, files): returned is where the caller goes on
\* when the call returns, raised what ends the process when it raises.
\* "decrypt" stands for lines 139-152, the sops command that writes d/.env;
\* decrypt_secrets raises before it gets there
SyncCall(d, files, returned, raised) ==
    LET outcome == decrypt_secrets(enc[d], dec[d], files)
    IN  CASE outcome = "remove" ->
               /\ dec' = [dec EXCEPT ![d] = FALSE]
               /\ cmds' = Append(cmds, Cmd("os", RemoveEnv, d, TRUE, ""))
               /\ pc' = returned
               /\ UNCHANGED <<exit_code, fatal>>
          [] outcome = "return" ->
               /\ pc' = returned
               /\ UNCHANGED <<exit_code, fatal, dec, cmds>>
          [] outcome = "raise" ->
               /\ Uncaught(raised)
               /\ UNCHANGED <<dec, cmds>>
          [] outcome = "decrypt" ->
               \E ok \in BOOLEAN :
                  /\ cmds' = Append(cmds, Cmd("sops", SopsDecrypt, d, ok, ""))
                  /\ dec' = [dec EXCEPT ![d] = ok \/ dec[d]]
                  /\ IF ok THEN /\ pc' = returned
                                /\ UNCHANGED <<exit_code, fatal>>
                     ELSE Uncaught(raised)

\* run() calls decrypt_secrets outside its try block
Sync ==
    /\ pc = "sync"
    /\ SyncCall(app_dirs[idx], changed, "reconcile", "sync")
    /\ UNCHANGED <<sops, head, origin, prev_commit, current_commit, compose,
                   enc, containers, app_dirs, idx, changed, rebuild,
                   log, checksums, env_sum>>

\* decrypt_secrets called once more on the same directory with the same
\* changed-file list, after the first call returned or raised
SyncAgain ==
    /\ \/ pc = "reconcile"
       \/ pc = "crashed" /\ fatal = "sync"
    /\ SyncCall(app_dirs[idx], changed, "synced_twice", "sync_again")
    /\ UNCHANGED <<sops, head, origin, prev_commit, current_commit, compose,
                   enc, containers, app_dirs, idx, changed, rebuild,
                   log, checksums, env_sum>>

-----------------------------------------------------------------------------
(* Deploy.manipulate_app, with the try/except of run() around it *)

\* the query is skipped and every application without a rebuild is restarted
ReconcileAction_always_restart(build, project_containers) ==
    IF build THEN ComposeUpBuild ELSE ComposeRestart

\* the two branches of the query are swapped
ReconcileAction_swapped(build, project_containers) ==
    IF build THEN ComposeUpBuild
    ELSE IF project_containers # "" THEN ComposeUp ELSE ComposeRestart

ReconcileAction(build, project_containers) ==
    IF build THEN ComposeUpBuild
    ELSE IF project_containers # "" THEN ComposeRestart ELSE ComposeUp

\* a failed query counts as running containers
QueryOutput_failed_as_running(query_ok, state) ==
    IF query_ok THEN PsOutput(state) ELSE "ids"

\* what manipulate_app holds in project_containers after the query:
\* except subprocess.CalledProcessError: project_containers = ""
QueryOutput(query_ok, state) ==
    IF query_ok THEN PsOutput(state) ELSE ""

Reconcile ==
    /\ pc = "reconcile"
    /\ LET d == app_dirs[idx] IN
       \E query_ok \in BOOLEAN : \E ok \in BOOLEAN :
         LET project_containers == QueryOutput(query_ok, containers[d])
             action == ReconcileAction(rebuild, project_containers)
             query == IF rebuild THEN <<>>
                      ELSE <<Cmd("docker", ComposePs, d, query_ok, project_containers)>>
         IN  /\ rebuild => query_ok
             /\ cmds' = cmds \o query \o <<Cmd("docker", action, d, ok, "")>>
             /\ \E state \in EngineEffect(action, containers[d], ok) :
                    containers' = [containers EXCEPT ![d] = state]
             \* a failed action is caught and logged by run()
             /\ log' = IF ok THEN log
                        ELSE Append(log, Line("stderr", OperationFailed, d))
    \* and the loop goes on
    /\ pc' = "loop"
    /\ UNCHANGED <<exit_code, fatal, sops, head, origin, prev_commit,
                   current_commit, compose, enc, dec, app_dirs, idx,
                   changed, rebuild, checksums, env_sum>>

-----------------------------------------------------------------------------
(* the end of the for loop of run(), Deploy.global_cleanup and the banner *)

LoopExit ==
    /\ pc = "loop"
    /\ idx = Len(app_dirs)
    /\ pc' = "cleanup"
    /\ UNCHANGED <<exit_code, fatal, sops, head, origin, prev_commit,
                   current_commit, compose, enc, dec, containers, app_dirs, idx, changed, rebuild, cmds,
                   log, checksums, env_sum>>

\* a failed prune is not caught
Cleanup_propagates ==
    /\ pc = "cleanup"
    /\ \E ok \in BOOLEAN :
        /\ cmds' = Append(cmds, Cmd("docker", SystemPrune, "", ok, ""))
        /\ IF ok
           THEN /\ log' = Append(log, Line("stdout", Complete, ""))
                /\ pc' = "done"
                /\ exit_code' = 0
                /\ UNCHANGED fatal
           ELSE /\ Uncaught("cleanup")
                /\ UNCHANGED log
    /\ UNCHANGED <<sops, head, origin, prev_commit, current_commit,
                   compose, enc, dec, containers, app_dirs, idx,
                   changed, rebuild, checksums, env_sum>>

Cleanup ==
    /\ pc = "cleanup"
    /\ \E ok \in BOOLEAN :
        /\ cmds' = Append(cmds, Cmd("docker", SystemPrune, "", ok, ""))
        \* a failed prune is caught and logged as a warning; the banner follows
        /\ log' = (IF ok THEN log ELSE Append(log, Line("stderr", PruneFailed, "")))
                   \o <<Line("stdout", Complete, "")>>
    /\ pc' = "done"
    /\ exit_code' = 0
    /\ UNCHANGED <<fatal, sops, head, origin, prev_commit, current_commit,
                   compose, enc, dec, containers, app_dirs, idx,
                   changed, rebuild, checksums, env_sum>>

-----------------------------------------------------------------------------
(* One fleet run *)

Init ==
    /\ pc = "boot"
    /\ exit_code = -1
    /\ fatal = "none"
    /\ sops \in {"absent", "executable"}
    /\ head = 1
    /\ origin \in Revs
    /\ prev_commit = 0
    /\ current_commit = 0
    /\ compose \in [Dirs -> BOOLEAN]
    /\ enc \in [Dirs -> BOOLEAN]
    /\ dec \in [Dirs -> BOOLEAN]
    /\ containers \in [Dirs -> {"absent", "stopped", "running"}]
    /\ app_dirs = <<>>
    /\ idx = 0
    /\ changed = <<>>
    /\ rebuild = FALSE
    /\ cmds = <<>>
    /\ log = <<>>
    /\ checksums = [d \in Dirs |-> 0]
    /\ env_sum = [d \in Dirs |-> 1]

Next ==
    \/ Boot
    \/ RevPrev
    \/ Fetch
    \/ Reset
    \/ RevCur
    \/ Submodule
    \/ Discover
    \/ Diff
    \/ Classify
    \/ Sync
    \/ Reconcile
    \/ LoopExit
    \/ Cleanup

Spec == Init /\ [][Next]_vars

-----------------------------------------------------------------------------
(* The classifier on its own: run() at the call of needs_build, for every  *)
(* changed-file list over PathPool                                         *)

InitClassify ==
    /\ pc = "classify"
    /\ changed \in FileLists(PathPool, MaxFiles)
    /\ exit_code = -1
    /\ fatal = "none"
    /\ sops = "executable"
    /\ head = 2
    /\ origin = 2
    /\ prev_commit = 1
    /\ current_commit = 2
    /\ compose = [d \in Dirs |-> TRUE]
    /\ enc = [d \in Dirs |-> FALSE]
    /\ dec = [d \in Dirs |-> FALSE]
    /\ containers = [d \in Dirs |-> "absent"]
    /\ app_dirs \in find_app_dirs
    /\ idx = 1
    /\ rebuild = FALSE
    /\ cmds = <<>>
    /\ log = <<>>
    /\ checksums = [d \in Dirs |-> 0]
    /\ env_sum = [d \in Dirs |-> 1]

NextClassify == Classify

SpecClassify == InitClassify /\ [][NextClassify]_vars

-----------------------------------------------------------------------------
(* Vocabulary of the properties *)

Terminated == pc \in {"done", "crashed"}

UpdateSteps == {"rev_prev", "fetch", "reset", "rev_cur", "submodule"}

\* the repository update has succeeded
Updated ==
    /\ pc \notin {"boot"} \cup UpdateSteps
    /\ fatal \notin {"bootstrap"} \cup UpdateSteps

\* the update has succeeded and the fleet root has been enumerated
Discovered == Updated /\ pc # "discover" /\ fatal # "discover"

Discoveries == {app_dirs[i] : i \in 1..Len(app_dirs)}

Issued(tool, op, d) ==
    \E k \in 1..Len(cmds) :
        cmds[k].tool = tool /\ cmds[k].op = op /\ cmds[k].app = d

EngineActions == {ComposeUpBuild, ComposeUp, ComposeRestart}

\* positions in cmds of the engine commands run in directory d
EngineCmds(d) == {k \in 1..Len(cmds) : cmds[k].tool = "docker" /\ cmds[k].app = d}

\* the diff of d printed at least one path
HadChanges(d) ==
    \E k \in 1..Len(cmds) :
        cmds[k].op = GitDiff /\ cmds[k].app = d /\ cmds[k].out # ""

ListsEnvEnc(files) == \E k \in 1..Len(files) : EndsWith(files[k], ".env.enc")

\* the secret sync of the application the loop is at has ended
SyncEnded ==
    /\ idx > 0
    /\ changed # <<>>
    /\ \/ pc \in {"reconcile", "loop"}
       \/ pc = "crashed" /\ fatal = "sync"

\* the reconcile of the application the loop is at has returned
ReconcileEnded == pc = "loop" /\ idx > 0 /\ changed # <<>>

\* the part of a path after its last "/"
FinalSegment(f) ==
    LET slashes == {i \in 1..Len(f) : CharAt(f, i) = "/"}
        last == IF slashes = {} THEN 0
                ELSE CHOOSE i \in slashes : \A j \in slashes : j <= i
    IN  SubSeq(f, last + 1, Len(f))

BuildNames ==
    {"dockerfile", "requirements", "requirements.txt", "compose.yml", "compose.yaml"}

HasBuildName(f) == Lower(FinalSegment(f)) \in BuildNames

-----------------------------------------------------------------------------
(* The secret sync on its own: run() at the call of decrypt_secrets, for     *)
(* every changed-file list over SyncPool and every state of the two secret   *)
(* files, and the same call once more                                        *)

InitSync ==
    /\ pc = "sync"
    /\ changed \in FileLists(SyncPool, MaxFiles)
    /\ enc \in [Dirs -> BOOLEAN]
    /\ dec \in [Dirs -> BOOLEAN]
    /\ exit_code = -1
    /\ fatal = "none"
    /\ sops = "executable"
    /\ head = 2
    /\ origin = 2
    /\ prev_commit = 1
    /\ current_commit = 2
    /\ compose = [d \in Dirs |-> TRUE]
    /\ containers = [d \in Dirs |-> "absent"]
    /\ app_dirs \in find_app_dirs
    /\ idx = 1
    /\ rebuild = FALSE
    /\ cmds = <<>>
    /\ log = <<>>
    /\ checksums = [d \in Dirs |-> 0]
    /\ env_sum = [d \in Dirs |-> 1]

NextSync ==
    \/ Sync
    \/ SyncAgain

SpecSync == InitSync /\ [][NextSync]_vars

-----------------------------------------------------------------------------
(* The encryption tool src/encrypt_secrets.py                                *)
(* One invocation of the script is one step; between invocations pc is      *)
(* "shell" and exit_code is the status of the last one.  log holds the line *)
(* that tells the outcome of each invocation.                               *)

\* SHA-256 digests of the contents a .env may have
Sums == {1, 2}

\* command lines: nothing, a directory of the fleet, a name that is no
\* directory
Args == {<<>>} \cup {<<d>> : d \in Dirs \cup {"appC"}}

SopsEncrypt == "--encrypt .env"

Usage         == "Usage: python3 encrypt_secrets.py <directory_name>"
NoDirectory   == "Error: Directory not found in parent directory"
NoEnvFile     == "Error: No .env file found in"
EncryptFailed == "Error: Failed to encrypt"
Encrypted     == "Encrypted successfully"
Skipped       == "Skipped - no changes detected"

\* .env.enc is rewritten only when the recorded digest differs
NeedsEncryption_digest_only(d) ==
    checksums[d] = 0 \/ checksums[d] # env_sum[d]

\* env_path not in checksums or checksums[env_path] != current_checksum
\* or not os.path.exists(encrypted_env_path)
NeedsEncryption(d) ==
    \/ checksums[d] = 0
    \/ checksums[d] # env_sum[d]
    \/ ~enc[d]

\* the script ends with status code after printing msg
ExitWith(code, msg, app) ==
    /\ exit_code' = code
    /\ log' = Append(log, Line("stdout", msg, app))

EncryptSecrets ==
    /\ pc = "shell"
    /\ Len(log) < MaxInvocations
    /\ \E argv \in Args : \E download_ok \in BOOLEAN : \E encrypt_ok \in BOOLEAN :
        IF sops = "absent" /\ ~download_ok
        THEN \* os.system(curl) returned non-zero: exit(1)
             /\ cmds' = Append(cmds, Cmd("curl", CurlSops, "", FALSE, ""))
             /\ ExitWith(1, DownloadFailed, "")
             /\ UNCHANGED <<sops, enc, checksums>>
        ELSE LET downloaded ==
                     IF sops = "absent"
                     THEN Append(cmds, Cmd("curl", CurlSops, "", TRUE, ""))
                     ELSE cmds
             IN  \* os.chmod(sops_filename, 0o755) after a download
                 /\ sops' = "executable"
                 /\ IF Len(argv) # 1
                    THEN /\ ExitWith(1, Usage, "")
                         /\ cmds' = downloaded
                         /\ UNCHANGED <<enc, checksums>>
                    ELSE IF argv[1] \notin Dirs
                    THEN /\ ExitWith(1, NoDirectory, argv[1])
                         /\ cmds' = downloaded
                         /\ UNCHANGED <<enc, checksums>>
                    ELSE IF ~dec[argv[1]]
                    THEN /\ ExitWith(1, NoEnvFile, argv[1])
                         /\ cmds' = downloaded
                         /\ UNCHANGED <<enc, checksums>>
                    ELSE IF ~NeedsEncryption(argv[1])
                    THEN /\ ExitWith(0, Skipped, argv[1])
                         /\ cmds' = downloaded
                         /\ UNCHANGED <<enc, checksums>>
                    ELSE /\ cmds' = Append(downloaded,
                                Cmd("sops", SopsEncrypt, argv[1], encrypt_ok, ""))
                         /\ IF encrypt_ok
                            THEN \* sops wrote .env.enc; the digest is recorded
                                 \* and the mapping saved
                                 /\ enc' = [enc EXCEPT ![argv[1]] = TRUE]
                                 /\ checksums' = [checksums EXCEPT
                                                    ![argv[1]] = env_sum[argv[1]]]
                                 /\ ExitWith(0, Encrypted, argv[1])
                            ELSE \* sys.exit(1) before the mapping is touched;
                                 \* sops may or may not have left an output
                                 /\ enc' \in {enc, [enc EXCEPT ![argv[1]] = TRUE]}
                                 /\ UNCHANGED checksums
                                 /\ ExitWith(1, EncryptFailed, argv[1])
    /\ UNCHANGED <<pc, fatal, head, origin, prev_commit, current_commit, compose,
                   dec, containers, app_dirs, idx, changed, rebuild, env_sum>>

InitEncrypt ==
    /\ pc = "shell"
    /\ exit_code = -1
    /\ sops \in {"absent", "executable"}
    /\ enc \in [Dirs -> BOOLEAN]
    /\ dec \in [Dirs -> BOOLEAN]
    /\ checksums \in [Dirs -> {0} \cup Sums]
    /\ env_sum \in [Dirs -> Sums]
    /\ cmds = <<>>
    /\ log = <<>>
    /\ fatal = "none"
    /\ head = 1
    /\ origin = 1
    /\ prev_commit = 0
    /\ current_commit = 0
    /\ compose = [d \in Dirs |-> TRUE]
    /\ containers = [d \in Dirs |-> "absent"]
    /\ app_dirs = <<>>
    /\ idx = 0
    /\ changed = <<>>
    /\ rebuild = FALSE

NextEncrypt == EncryptSecrets

SpecEncrypt == InitEncrypt /\ [][NextEncrypt]_vars

-----------------------------------------------------------------------------
(* Properties of the fleet run (Spec) *)

\* C1: when a run whose update and discovery succeeded has ended, the diff of
\* every discovered application has been computed: no failure while
\* processing one application keeps a later one from being processed.
C1_EveryApplicationAttempted ==
    (Terminated /\ Discovered) =>
        \A d \in Discoveries : Issued("git", GitDiff, d)

\* C2: when a run whose update and discovery succeeded has ended, the system
\* prune has been issued exactly once and it is the last command of the run.
C2_CleanupOnceAfterLastApplication ==
    (Terminated /\ Discovered) =>
        /\ Cardinality({k \in 1..Len(cmds) : cmds[k].op = SystemPrune}) = 1
        /\ cmds[Len(cmds)].op = SystemPrune

\* C3: once the secret sync of an application has ended with .env.enc on disk
\* and listed in the changed files, the decryption tool has been invoked for
\* that application, before every engine command of that application.
C3_DecryptionBeforeReconcile ==
    LET d == app_dirs[idx] IN
    (SyncEnded /\ enc[d] /\ ListsEnvEnc(changed)) =>
        \E k \in 1..Len(cmds) :
            /\ cmds[k].tool = "sops" /\ cmds[k].op = SopsDecrypt /\ cmds[k].app = d
            /\ \A j \in EngineCmds(d) : k < j

\* C4: a run that got past the update and the discovery exits with 0, and a
\* non-zero exit status comes only from the bootstrap, the update or the
\* enumeration of the fleet root.
C4_ExitCodeReflectsOnlyFatalFailures ==
    Terminated =>
        /\ Discovered => exit_code = 0
        /\ exit_code # 0 => fatal \in {"bootstrap", "discover"} \cup UpdateSteps

\* C5: when the fetch or the hard reset has failed, the run has ended before
\* discovery: no application is discovered or diffed, no .env is removed or
\* decrypted and no engine command (up, restart, ps, prune) is issued.
C5_UpdateFailureAbortsBeforeDiscovery ==
    fatal \in {"fetch", "reset"} =>
        /\ pc = "crashed"
        /\ exit_code # 0
        /\ app_dirs = <<>> /\ idx = 0
        /\ \A k \in 1..Len(cmds) : cmds[k].tool \notin {"git", "docker", "sops", "os"}

\* C5 witness: the hard reset failed after a successful fetch.
C5_Witness ==
    fatal = "reset" /\ pc = "crashed" /\ prev_commit # 0 /\ \E d \in Dirs : dec[d]

\* C6 as claimed: at the end of a completed run no discovered application has
\* .env without .env.enc, whatever its changed-file set was.
C6_NoEnvWithoutEncAtEnd ==
    pc = "done" => \A d \in Discoveries : ~enc[d] => ~dec[d]

\* C6 amended: at the end of a completed run no discovered application whose
\* changed-file set was not empty has .env without .env.enc.
C6_NoEnvWithoutEncWhereChanged ==
    pc = "done" => \A d \in Discoveries : (HadChanges(d) /\ ~enc[d]) => ~dec[d]

\* C6 witness: a completed run removed the stale .env of a changed application.
C6_Witness ==
    /\ pc = "done"
    /\ \E d \in Discoveries :
        HadChanges(d) /\ ~enc[d] /\ ~dec[d] /\ Issued("os", RemoveEnv, d)

\* C9: when reconcile has returned, the engine commands of the application
\* are: with build_required, the single up with --build and no query; without
\* it, the query followed by restart when the query printed container ids and
\* by up without --build when it printed nothing or failed.  So a command with
\* --build is there if and only if build_required.
C9_ReconcileActionTable ==
    ReconcileEnded =>
        LET d == app_dirs[idx]
            first == CHOOSE k \in EngineCmds(d) : \A j \in EngineCmds(d) : k <= j
            last == CHOOSE k \in EngineCmds(d) : \A j \in EngineCmds(d) : j <= k
        IN  /\ EngineCmds(d) # {}
            /\ rebuild =>
                 /\ Cardinality(EngineCmds(d)) = 1
                 /\ cmds[last].op = ComposeUpBuild
            /\ ~rebuild =>
                 /\ Cardinality(EngineCmds(d)) = 2
                 /\ cmds[first].op = ComposePs
                 /\ cmds[first].out # "" => cmds[last].op = ComposeRestart
                 /\ cmds[first].out = "" => cmds[last].op = ComposeUp
            /\ rebuild <=> \E k \in EngineCmds(d) : cmds[k].op = ComposeUpBuild

\* C9 witness: a runtime-only change of a running project was reconciled by a
\* restart.
C9_Witness ==
    /\ ReconcileEnded
    /\ ~rebuild
    /\ Issued("docker", ComposeRestart, app_dirs[idx])
    /\ ~Issued("docker", ComposeUp, app_dirs[idx])

\* C10: an application whose reconcile ran with every engine command
\* succeeding has its project running.
C10_SuccessfulReconcileLeavesProjectUp ==
    \A d \in Dirs :
        ( /\ \E k \in EngineCmds(d) : cmds[k].op \in EngineActions
          /\ \A k \in EngineCmds(d) : cmds[k].ok ) =>
            containers[d] = "running"

\* C10 witness: a project with no running container was brought up without a
\* rebuild, every command succeeding.
C10_Witness ==
    \E d \in Dirs :
        /\ \E k \in EngineCmds(d) :
              cmds[k].op = ComposePs /\ cmds[k].ok /\ cmds[k].out = ""
        /\ \E k \in EngineCmds(d) : cmds[k].op = ComposeUp /\ cmds[k].ok
        /\ containers[d] = "running"

-----------------------------------------------------------------------------
(* Properties of the classifier (SpecClassify) *)

\* C7: when no changed path has a final segment equal, ignoring case, to
\* Dockerfile, requirements, requirements.txt, compose.yml or compose.yaml,
\* needs_build returns False.
C7_NoBuildNameIsRuntimeOnly ==
    pc = "sync" =>
        ((\A k \in 1..Len(changed) : ~HasBuildName(changed[k])) => ~rebuild)

\* C8: when some changed path, at any position of the list and any depth, has
\* a final segment equal, ignoring case, to Dockerfile, requirements,
\* requirements.txt, compose.yml or compose.yaml, needs_build returns True.
C8_BuildNameIsBuildRequired ==
    pc = "sync" =>
        ((\E k \in 1..Len(changed) : HasBuildName(changed[k])) => rebuild)

\* C8 witness: the build-relevant path is the second of two, nested and in
\* upper case.
C8_Witness ==
    /\ pc = "sync"
    /\ Len(changed) = 2
    /\ ~HasBuildName(changed[1])
    /\ changed[2] = "app/sub/DOCKERFILE"
    /\ rebuild

-----------------------------------------------------------------------------
(* The skip of an unchanged application *)

\* the diff of d was run and left changed empty: it printed nothing or failed
DiffEmpty(d) ==
    \E k \in 1..Len(cmds) :
        cmds[k].op = GitDiff /\ cmds[k].app = d /\ cmds[k].out = ""

DiffFailed(d) ==
    \E k \in 1..Len(cmds) :
        cmds[k].op = GitDiff /\ cmds[k].app = d /\ ~cmds[k].ok

\* C11: an application whose changed-file list is empty, because its diff
\* printed nothing or because its diff failed, gets no container-engine
\* command (no ps, no up, no restart) in its directory during the run.
C11_SkippedApplicationGetsNoEngineCommand ==
    \A d \in Dirs : DiffEmpty(d) => EngineCmds(d) = {}

\* a finished run that skipped one application after a failed diff, skipped
\* nothing of the other and drove the engine for it
C11_Witness ==
    /\ pc = "done"
    /\ \E d \in Dirs : \E e \in Dirs \ {d} :
        /\ DiffFailed(d)
        /\ EngineCmds(d) = {}
        /\ HadChanges(e)
        /\ EngineCmds(e) # {}

-----------------------------------------------------------------------------
(* Properties of the secret sync (SpecSync) *)

\* the sops decryption commands issued so far
Decryptions == {k \in 1..Len(cmds) : cmds[k].op = SopsDecrypt}

\* C12: a call of the secret sync on a directory without .env.enc and with
\* .env deletes .env and starts no decryption, whatever the changed-file list
\* is; and no call of the secret sync creates or removes any .env.enc.
C12_StaleEnvRemovedEncUntouched ==
    [][ LET d == app_dirs[idx]
        IN  /\ enc' = enc
            /\ (~enc[d] /\ dec[d]) => (~dec'[d] /\ Decryptions' = {}) ]_vars

\* the sync has removed the .env of a directory without .env.enc although the
\* changed-file list names .env.enc
C12_Witness ==
    /\ pc = "reconcile"
    /\ ListsEnvEnc(changed)
    /\ ~enc[app_dirs[idx]]
    /\ ~dec[app_dirs[idx]]
    /\ Issued("os", RemoveEnv, app_dirs[idx])

\* the first call of decrypt_secrets has ended and the second has not begun
SyncedOnce == pc = "reconcile" \/ (pc = "crashed" /\ fatal = "sync")

\* C14: a second call of the secret sync on the same directory with the same
\* changed-file list leaves both secret files as the first call left them,
\* and starts no decryption when the list does not name .env.enc.
C14_SecondSyncChangesNothing ==
    [][ SyncedOnce =>
            /\ enc' = enc
            /\ dec' = dec
            /\ ~ListsEnvEnc(changed) => Decryptions' = Decryptions ]_vars

\* two calls have returned, the first of which removed a stale .env, under a
\* changed-file list that does not name .env.enc
C14_Witness ==
    /\ pc = "synced_twice"
    /\ changed # <<>>
    /\ ~ListsEnvEnc(changed)
    /\ Issued("os", RemoveEnv, app_dirs[idx])
    /\ Len(cmds) = 1

-----------------------------------------------------------------------------
(* Failures the run absorbs, and what it prints about them (Spec) *)

\* the failed commands scoped to d ("" for the fleet) that did not end the run:
\* diffs, container queries, engine actions and the prune
AbsorbedFailures(d) ==
    {k \in 1..Len(cmds) :
        ~cmds[k].ok /\ cmds[k].app = d /\ cmds[k].tool \in {"git", "docker"}}

\* the lines on standard error that name d
ErrorLines(d) ==
    {j \in 1..Len(log) : log[j].stream = "stderr" /\ log[j].app = d}

\* C13: every failed command the run absorbs has its own error or warning
\* line naming the application: in particular a failed diff and a failed
\* running-container query are each reported.
C13_AbsorbedFailureIsLogged ==
    \A d \in Dirs \cup {""} :
        Cardinality(AbsorbedFailures(d)) <= Cardinality(ErrorLines(d))

-----------------------------------------------------------------------------
(* The order of the steps of a run (Spec) *)

\* the successions of positions the order UPDATE, DISCOVER, per application
\* DIFF, CLASSIFY, SYNC_SECRETS, RECONCILE, then CLEANUP allows
StepOrder ==
    { <<"boot", "rev_prev">>, <<"rev_prev", "fetch">>, <<"fetch", "reset">>,
      <<"reset", "rev_cur">>, <<"rev_cur", "submodule">>,
      <<"rev_cur", "discover">>, <<"submodule", "discover">>,
      <<"discover", "loop">>,
      <<"loop", "loop">>, <<"loop", "classify">>, <<"classify", "sync">>,
      <<"sync", "reconcile">>, <<"reconcile", "loop">>,
      <<"loop", "cleanup">>, <<"cleanup", "done">> }

\* a step of the run keeps the order, moves to the next application only
\* from the head of the loop, ends the loop only after the last application,
\* and assigns the previous revision only before the fetch and the current
\* one only after the reset
OrderedStep ==
    /\ <<pc, pc'>> \in StepOrder \/ pc' = "crashed"
    /\ idx' # idx => (pc = "loop" /\ idx' = idx + 1)
    /\ pc' = "cleanup" => idx = Len(app_dirs)
    /\ prev_commit' # prev_commit => (pc = "rev_prev" /\ prev_commit = 0)
    /\ current_commit' # current_commit => (pc = "rev_cur" /\ current_commit = 0)

\* every diff run so far compared the two revisions the run holds
DiffsUseCapturedPair ==
    \A k \in 1..Len(cmds) :
        cmds[k].op = GitDiff =>
            /\ cmds[k].revs = <<prev_commit, current_commit>>
            /\ prev_commit # 0
            /\ current_commit # 0

\* C15: the steps of a run follow the order UPDATE, DISCOVER, per application
\* DIFF, CLASSIFY, SYNC_SECRETS, RECONCILE, then CLEANUP; the previous revision
\* is assigned once before the fetch and the current one once after the
\* reset, neither is assigned again, every diff compares that pair, and the
\* loop moves to the next application only when the one before has ended.
C15_StepsInOrderRevisionsFixed ==
    [][OrderedStep]_vars /\ []DiffsUseCapturedPair

\* a finished run over two revisions that took both applications through
\* their diff and their reconcile
C15_Witness ==
    /\ pc = "done"
    /\ prev_commit = 1
    /\ current_commit = 2
    /\ \A d \in Dirs : Issued("git", GitDiff, d) /\ EngineCmds(d) # {}

-----------------------------------------------------------------------------
(* Failures of the reconcile (Spec) *)

\* C16: without a rebuild, a failed running-container query is followed by
\* up -d --remove-orphans in the same directory and does not end the run; a
\* failed action command is reported on standard error with the
\* application's path and does not end the run either, which goes on with
\* the next application.
C16_QueryFailureCreatesActionFailureLogged ==
    \A k \in 1..Len(cmds) :
        /\ (cmds[k].op = ComposePs /\ ~cmds[k].ok) =>
              /\ k < Len(cmds)
              /\ cmds[k + 1].op = ComposeUp
              /\ cmds[k + 1].app = cmds[k].app
        /\ (cmds[k].op \in EngineActions /\ ~cmds[k].ok) =>
              /\ \E j \in 1..Len(log) :
                    log[j] = Line("stderr", OperationFailed, cmds[k].app)
              /\ pc = "crashed" => fatal = "sync"

\* the query of the first application failed, the up that followed failed
\* and was reported, and the run went on to the diff of the second
C16_Witness ==
    /\ Len(cmds) >= 4
    /\ cmds[2].op = ComposePs /\ ~cmds[2].ok
    /\ cmds[3].op = ComposeUp /\ ~cmds[3].ok
    /\ cmds[4].op = GitDiff /\ cmds[4].app # cmds[3].app
    /\ log[1] = Line("stderr", OperationFailed, cmds[3].app)

-----------------------------------------------------------------------------
(* Failure of the cleanup (Spec) *)

PruneHasFailed ==
    \E k \in 1..Len(cmds) : cmds[k].op = SystemPrune /\ ~cmds[k].ok

\* C17: when the system prune fails, a warning is written to standard error,
\* the run still ends with the completion banner and exit status 0, and the
\* cleanup step changes no application's containers and no secret file.
C17_FailedPruneIsOnlyAWarning ==
    /\ [](PruneHasFailed =>
            /\ pc = "done"
            /\ exit_code = 0
            /\ fatal = "none"
            /\ \E j \in 1..Len(log) : log[j] = Line("stderr", PruneFailed, "")
            /\ log[Len(log)] = Line("stdout", Complete, ""))
    /\ [][pc = "cleanup" => UNCHANGED <<containers, enc, dec>>]_vars

\* a finished run whose prune failed, with a project running and a plaintext
\* secret file on disk
C17_Witness ==
    /\ pc = "done"
    /\ PruneHasFailed
    /\ \E d \in Dirs : containers[d] = "running" /\ dec[d] /\ EngineCmds(d) # {}

-----------------------------------------------------------------------------
(* Bootstrap of the decryption binary (Spec) *)

\* positions in cmds of the downloads of the decryption binary
Downloads == {k \in 1..Len(cmds) : cmds[k].op = CurlSops}

\* C18: after a successful download the binary is executable and the run
\* goes on to the repository update; the process ends in the bootstrap only
\* when the download failed; without a download the cached binary is used.
C18_DownloadedBinaryLetsRunProceed ==
    /\ \A k \in Downloads :
          cmds[k].ok => (sops = "executable" /\ fatal # "bootstrap")
    /\ fatal = "bootstrap" => \E k \in Downloads : ~cmds[k].ok
    /\ (Downloads = {} /\ pc # "boot") => sops = "executable"

-----------------------------------------------------------------------------
(* What a run does to an application, discovered or not (Spec) *)

\* positions in cmds of the state-changing engine commands run in directory d
ActionCmds(d) == {k \in EngineCmds(d) : cmds[k].op \in EngineActions}

\* C19: a discovered application gets at most one of up --build, up and
\* restart in a run; the discovered applications are the subdirectories that
\* hold compose.yaml, and a subdirectory that is not discovered gets no
\* command at all and keeps its .env as it is.
C19_OneActionPerApplicationNoneOutside ==
    /\ [](/\ \A d \in Dirs : Cardinality(ActionCmds(d)) <= 1
          /\ Discovered => Discoveries = {d \in Dirs : compose[d]}
          /\ \A d \in Dirs \ Discoveries :
                \A k \in 1..Len(cmds) : cmds[k].app # d)
    /\ [][\A d \in Dirs \ Discoveries' : dec'[d] = dec[d]]_vars

\* a finished run that left alone a subdirectory without compose.yaml holding
\* a .env without .env.enc, and drove the engine once for the other one
C19_Witness ==
    /\ pc = "done"
    /\ \E d \in Dirs \ Discoveries : \E e \in Discoveries :
        /\ dec[d] /\ ~enc[d]
        /\ Cardinality(ActionCmds(e)) = 1
        /\ Cardinality(EngineCmds(e)) = 2

-----------------------------------------------------------------------------
(* Properties of the encryption tool (SpecEncrypt) *)

\* positions in cmds of the encryptions of d/.env
Encryptions(d) ==
    {k \in 1..Len(cmds) : cmds[k].op = SopsEncrypt /\ cmds[k].app = d}

\* d/.env has no recorded digest, or another one than its content has, or
\* d/.env.enc does not exist
Stale(d) ==
    \/ checksums[d] = 0
    \/ checksums[d] # env_sum[d]
    \/ ~enc[d]

\* the invocation this step is, for a directory d that holds .env, encrypts
\* exactly when d is stale; it records the digest of d/.env exactly when the
\* encryption succeeded, and then d is no longer stale; when the encryption
\* fails the mapping is kept and the status is not 0; when nothing is
\* encrypted the mapping is kept
EncryptStep ==
    \A d \in Dirs :
        LET encrypted == Encryptions(d)' # Encryptions(d)
            ok == encrypted /\ cmds'[Len(cmds')].ok
        IN  (log' # log /\ log'[Len(log')].app = d /\ dec[d]) =>
                /\ encrypted <=> Stale(d)
                /\ ok => /\ checksums' = [checksums EXCEPT ![d] = env_sum[d]]
                         /\ ~Stale(d)'
                         /\ exit_code' = 0
                /\ (encrypted /\ ~ok) =>
                         (checksums' = checksums /\ exit_code' # 0)
                /\ ~encrypted => checksums' = checksums

\* an invocation for d right after one that encrypted d/.env skips it
SecondInvocationSkips ==
    \A j \in 1..(Len(log) - 1) :
        (log[j].msg = Encrypted /\ log[j + 1].app = log[j].app) =>
            log[j + 1].msg = Skipped

\* C20: for a target directory that holds .env, the tool encrypts if and only
\* if the path has no recorded digest, or the recorded digest differs from
\* the digest of the content, or .env.enc does not exist; the recorded digest
\* changes only after a successful encryption, a failed one leaves the
\* mapping as it was and ends with a non-zero status; an invocation right
\* after a successful one encrypts nothing and leaves the mapping as it is.
C20_EncryptIffStaleDigestAfterSuccess ==
    [][EncryptStep]_vars /\ []SecondInvocationSkips

\* two invocations in a row for the same directory: the first encrypted,
\* the second skipped
C20_Witness ==
    /\ Len(log) = 2
    /\ log[1].msg = Encrypted
    /\ log[2] = Line("stdout", Skipped, log[1].app)
    /\ checksums[log[1].app] = env_sum[log[1].app]

=============================================================================
